---- MODULE Spec2Model ----
(***************************************************************************)
(* The chatbot widget of the appointment system, in its two source copies: *)
(* the remote copy (Consultancy/appointment-system/src/main.jsx, lines     *)
(* 31-244), which posts each question to /chat, and the local copy         *)
(* (unnamed/part_001, lines 1-193), which answers from keyword rules after *)
(* a 600 ms timer.  One behaviour of the model is one mounted widget; the  *)
(* copy that is mounted is fixed in the initial state.                     *)
(*                                                                         *)
(* A text is a sequence of strings whose concatenation is the text.  The   *)
(* texts the code inspects (the draft, the transcribed utterance, the      *)
(* keywords) are held one character per element, so that trim, toLowerCase *)
(* and includes are computed character by character; the literal texts the *)
(* code only stores and shows are held as one element.                     *)
(***************************************************************************)
EXTENDS Naturals, Sequences, FiniteSets

VARIABLES
  variant,         \* "remote" (main.jsx) or "local" (part_001): the mounted copy
  conversationId,  \* useState(Date.now().toString()), remote copy only
  hasRecognition,  \* recognition.current is set (the platform has speech input)
  isOpen,          \* useState(false)
  messages,        \* useState([greeting]): the transcript
  inputText,       \* useState(''): the draft
  isListening,     \* useState(false)
  isBotTyping,     \* useState(false), remote copy only
  calls,           \* remote copy: sendMessage invocations suspended at an await
  timers,          \* local copy: pending setTimeout callbacks, oldest first
  recState,        \* the platform recognizer: idle, capturing, stopping,
                   \* finishing (result delivered), errored (error delivered)
  alertOpen,       \* the blocking alert() of startListening is on screen
  invalidStart     \* recognition.start() was called on a started recognizer

vars == <<variant, conversationId, hasRecognition, isOpen, messages, inputText,
          isListening, isBotTyping, calls, timers, recState, alertOpen,
          invalidStart>>

----------------------------------------------------------------------------
(* Bounds of the model *)

\* accepted submits per behaviour
MaxSubmits == 2

----------------------------------------------------------------------------
(* Texts *)

\* initial transcript message
Greeting ==
  <<"Hello! I'm your healthcare assistant. How can I help you today?">>

\* remote catch-branch text
FallbackText ==
  <<"Sorry, I'm having trouble responding. Please try again later.">>

\* local default reply
DefaultResponse ==
  <<"I'm sorry, I don't have information about that yet. Please contact our support team for more assistance.">>

\* local booking reply
BookingResponse ==
  <<"To book an appointment, please select a doctor from the list and click the appointment button. You can also call our reception at 123-456-7890.">>

\* local specialists reply
SpecialistsResponse ==
  <<"We have specialists in Oncology, Neurology, Pulmonology, and Cardiology. You can view all doctors in the list above.">>

\* local availability reply
AvailabilityResponse ==
  <<"Each doctor has different availability hours. Please check the availability section in the doctor's information card.">>

\* local greeting reply
GreetingResponse ==
  <<"Hello! How can I assist you with your healthcare needs today?">>

\* local thanks reply
ThanksResponse ==
  <<"You're welcome! Is there anything else I can help you with?">>


\* keywords of handleBotResponse
Kw_appointment ==
  <<"a","p","p","o","i","n","t","m","e","n","t">>
Kw_book ==
  <<"b","o","o","k">>
Kw_schedule ==
  <<"s","c","h","e","d","u","l","e">>
Kw_doctor ==
  <<"d","o","c","t","o","r">>
Kw_specialist ==
  <<"s","p","e","c","i","a","l","i","s","t">>
Kw_timing ==
  <<"t","i","m","i","n","g">>
Kw_hours ==
  <<"h","o","u","r","s">>
Kw_available ==
  <<"a","v","a","i","l","a","b","l","e">>
Kw_hello ==
  <<"h","e","l","l","o">>
Kw_hi ==
  <<"h","i">>
Kw_hey ==
  <<"h","e","y">>
Kw_thank ==
  <<"t","h","a","n","k">>

\* text of a successful server reply (data.response) and of a server error
\* (data.message); what the server sends is not fixed by the repository
ServerReply ==
  <<"Our clinic opens at 9 am.">>
ServerError ==
  <<"Internal Server Error">>

\* stands for the JavaScript value undefined (a field that is missing); it
\* differs from every text of the model
Undefined ==
  <<"undefined">>

\* String.prototype.trim strips these from both ends: the WhiteSpace and
\* LineTerminator code points of ECMAScript (TAB, VT, FF, ZWNBSP, the Unicode
\* space separators, LF, CR, LS, PS).  A character that has no escape in a
\* string of the model is the element that names its code point.
WhiteSpace ==
  { "\t", "\n", "U+000B", "\f", "\r", " ", "U+00A0", "U+1680",
    "U+2000", "U+2001", "U+2002", "U+2003", "U+2004", "U+2005", "U+2006",
    "U+2007", "U+2008", "U+2009", "U+200A", "U+2028", "U+2029", "U+202F",
    "U+205F", "U+3000", "U+FEFF" }

\* drafts the user can type into the input (onChange delivers the whole value)
Drafts ==
  { <<>>,
    <<" ", "\f", "U+00A0">>,
    <<"B","o","o","k"," ","a"," ","d","o","c","t","o","r">>,
    <<" ","h","e","y"," ">> }

\* utterances the platform recognizer can transcribe
SpeechTexts ==
  { <<"t","h","a","n","k","s">> }

\* values Date.now().toString() can take when the widget mounts
SessionIds ==
  { "1761700000000", "1761700000001" }

\* bodies the /chat endpoint can send: not JSON, the JSON value null, or a JSON
\* object with or without its response and message fields
Bodies ==
  [kind : {"invalid", "null"}, response : {Undefined}, message : {Undefined}]
  \cup
  [kind : {"object"}, response : {Undefined, ServerReply},
   message : {Undefined, ServerError}]

----------------------------------------------------------------------------
(* String functions, computed as the JavaScript built-ins compute them *)

\* mutant: the guard compares the draft itself with '' (no trim)
TrimNone(s) ==
  s

Trim(s) ==
  LET keep == {i \in 1..Len(s) : s[i] \notin WhiteSpace}
      lo == CHOOSE i \in keep : \A j \in keep : i <= j
      hi == CHOOSE i \in keep : \A j \in keep : j <= i
  IN  IF keep = {} THEN <<>> ELSE SubSeq(s, lo, hi)

----------------------------------------------------------------------------
(* Letter case (String.prototype.toLowerCase)                               *)
(*                                                                          *)
(* The texts of the model are written over the code points of Alphabet:    *)
(* printable ASCII, the white space trim strips, and the code points       *)
(* outside ASCII whose lower-case form holds an ASCII letter (KELVIN SIGN,  *)
(* the capital dotted I and the combining dot its lower-case form ends     *)
(* with).  These are the code points on which a keyword, which is made of  *)
(* ASCII letters, can come to match.  The letter-case functions are        *)
(* defined on Alphabet only.  A printable ASCII character is written as    *)
(* itself (the grave accent, which a string of the model cannot hold, is   *)
(* U+0060), every other code point as the element that names it.           *)

AsciiPrintable ==
  {
    " ", "!", "\"", "#", "$", "%", "&", "'", "(", ")", "*", "+", ",", "-",
    ".", "/", "0", "1", "2", "3", "4", "5", "6", "7", "8", "9", ":", ";",
    "<", "=", ">", "?", "@", "A", "B", "C", "D", "E", "F", "G", "H", "I",
    "J", "K", "L", "M", "N", "O", "P", "Q", "R", "S", "T", "U", "V", "W",
    "X", "Y", "Z", "[", "\\", "]", "^", "_", "U+0060", "a", "b", "c", "d",
    "e", "f", "g", "h", "i", "j", "k", "l", "m", "n", "o", "p", "q", "r",
    "s", "t", "u", "v", "w", "x", "y", "z", "{", "|", "}", "~" }

Alphabet ==
  AsciiPrintable \cup WhiteSpace \cup {"U+212A", "U+0130", "U+0307"}

\* <<c, l>>: the lower-case form of the code point c of Alphabet is the one
\* code point l, different from c
LowerPairs ==
  {
    <<"A","a">>, <<"B","b">>, <<"C","c">>, <<"D","d">>, <<"E","e">>,
    <<"F","f">>, <<"G","g">>, <<"H","h">>, <<"I","i">>, <<"J","j">>,
    <<"K","k">>, <<"L","l">>, <<"M","m">>, <<"N","n">>, <<"O","o">>,
    <<"P","p">>, <<"Q","q">>, <<"R","r">>, <<"S","s">>, <<"T","t">>,
    <<"U","u">>, <<"V","v">>, <<"W","w">>, <<"X","x">>, <<"Y","y">>,
    <<"Z","z">>, <<"U+212A","k">> }

\* the text toLowerCase gives for the one code point c of Alphabet: U+0130
\* becomes "i" and U+0307, a code point of LowerPairs its lower-case form,
\* every other one is kept
LowerMap ==
  [c \in Alphabet |->
     IF c = "U+0130" THEN <<"i", "U+0307">>
     ELSE IF \E p \in LowerPairs : p[1] = c
       THEN <<(CHOOSE p \in LowerPairs : p[1] = c)[2]>>
     ELSE <<c>>]

LowerChar(c) ==
  LowerMap[c]

\* mutant: the rules are matched against the text as typed
ToLowerCaseNone(s) ==
  s

ToLowerCase(s) ==
  LET low[i \in 0..Len(s)] ==
        IF i = 0 THEN <<>> ELSE low[i - 1] \o LowerChar(s[i])
  IN  low[Len(s)]

Includes(s, kw) ==
  \E i \in 0..(Len(s) - Len(kw)) : SubSeq(s, i + 1, i + Len(kw)) = kw

----------------------------------------------------------------------------
(* Transcript *)

UserMessage(text) ==
  [text |-> text, sender |-> "user"]

BotMessage(text) ==
  [text |-> text, sender |-> "bot"]

\* mutant: prev => [m, ...prev]
AppendMessagePrepend(prev, m) ==
  <<m>> \o prev

\* prev => [...prev, m]
AppendMessage(prev, m) ==
  Append(prev, m)

NumUser(ms) ==
  Cardinality({i \in 1..Len(ms) : ms[i].sender = "user"})

NumBot(ms) ==
  Cardinality({i \in 1..Len(ms) : ms[i].sender = "bot"})

RemoveAt(q, i) ==
  SubSeq(q, 1, i - 1) \o SubSeq(q, i + 1, Len(q))

----------------------------------------------------------------------------
(* Rendered controls *)

\* <input disabled={isBotTyping}> in the remote copy; never disabled in the local
InputDisabled ==
  variant = "remote" /\ isBotTyping

\* the voice button: disabled={isBotTyping} in the remote copy
VoiceDisabled ==
  variant = "remote" /\ isBotTyping

\* mutant: the send button is disabled by a blank draft only
SendDisabledNoTyping ==
  variant = "remote" /\ Trim(inputText) = <<>>

\* the send button: disabled={isBotTyping || inputText.trim() === ''} in the
\* remote copy; never disabled in the local copy.  A form whose submit button
\* is disabled is not submitted by Enter either.
SendDisabled ==
  variant = "remote" /\ (isBotTyping \/ Trim(inputText) = <<>>)

----------------------------------------------------------------------------
(* Initial state: the widget right after it mounts *)

Init ==
  /\ variant \in {"remote", "local"}
  /\ conversationId \in (IF variant = "remote" THEN SessionIds ELSE {"none"})
  /\ hasRecognition \in BOOLEAN
  /\ isOpen = FALSE
  /\ messages = <<BotMessage(Greeting)>>
  /\ inputText = <<>>
  /\ isListening = FALSE
  /\ isBotTyping = FALSE
  /\ calls = <<>>
  /\ timers = <<>>
  /\ recState = "idle"
  /\ alertOpen = FALSE
  /\ invalidStart = FALSE

----------------------------------------------------------------------------
(* Visibility and draft *)

\* mutant: toggling also clears the draft
toggleChatbotClearing ==
  /\ ~alertOpen
  /\ isOpen' = ~isOpen
  /\ inputText' = <<>>
  /\ UNCHANGED <<variant, conversationId, hasRecognition, messages,
                 isListening, isBotTyping, calls, timers, recState, alertOpen,
                 invalidStart>>

toggleChatbot ==
  /\ ~alertOpen
  /\ isOpen' = ~isOpen
  /\ UNCHANGED <<variant, conversationId, hasRecognition, messages, inputText,
                 isListening, isBotTyping, calls, timers, recState, alertOpen,
                 invalidStart>>

\* onChange={(e) => setInputText(e.target.value)}
onChange(value) ==
  /\ ~alertOpen
  /\ isOpen
  /\ ~InputDisabled
  /\ value # inputText
  /\ inputText' = value
  /\ UNCHANGED <<variant, conversationId, hasRecognition, isOpen, messages,
                 isListening, isBotTyping, calls, timers, recState, alertOpen,
                 invalidStart>>

----------------------------------------------------------------------------
(* Submit, remote copy *)

\* mutant: the request carries an identifier other than the one fixed at mount
sendMessageRemoteFreshId ==
  IF Trim(inputText) = <<>>
    THEN UNCHANGED vars
    ELSE /\ messages' = AppendMessage(messages, UserMessage(inputText))
         /\ inputText' = <<>>
         /\ isBotTyping' = TRUE
         /\ calls' = Append(calls, [question |-> inputText,
                                    conversation_id |->
                                      CHOOSE id \in SessionIds : id # conversationId,
                                    stage |-> "fetch",
                                    ok |-> FALSE,
                                    body |-> CHOOSE b \in Bodies : b.kind = "invalid",
                                    userPos |-> Len(messages) + 1])
         /\ UNCHANGED <<variant, conversationId, hasRecognition, isOpen,
                        isListening, timers, recState, alertOpen, invalidStart>>

\* sendMessage up to its first await: the guard, the three state updates and
\* the fetch.  userPos is where the user message lands in the transcript; ok
\* and body hold the response once fetch has resolved.
sendMessageRemote ==
  IF Trim(inputText) = <<>>
    THEN UNCHANGED vars
    ELSE /\ messages' = AppendMessage(messages, UserMessage(inputText))
         /\ inputText' = <<>>
         /\ isBotTyping' = TRUE
         /\ calls' = Append(calls, [question |-> inputText,
                                    conversation_id |-> conversationId,
                                    stage |-> "fetch",
                                    ok |-> FALSE,
                                    body |-> CHOOSE b \in Bodies : b.kind = "invalid",
                                    userPos |-> Len(messages) + 1])
         /\ UNCHANGED <<variant, conversationId, hasRecognition, isOpen,
                        isListening, timers, recState, alertOpen, invalidStart>>

\* mutant: the catch block shows err.message, the text of the thrown Error
CatchShowsError(i) ==
  /\ messages' = AppendMessage(messages,
         BotMessage(IF calls[i].stage = "json" /\ calls[i].body.message # Undefined
                      THEN calls[i].body.message
                      ELSE <<"Failed to get response">>))
  /\ isBotTyping' = FALSE
  /\ calls' = RemoveAt(calls, i)

\* mutant: the catch block without the finally block
CatchNoFinally(i) ==
  /\ messages' = AppendMessage(messages, BotMessage(FallbackText))
  /\ isBotTyping' = isBotTyping
  /\ calls' = RemoveAt(calls, i)

\* the catch block followed by the finally block
CatchFinally(i) ==
  /\ messages' = AppendMessage(messages, BotMessage(FallbackText))
  /\ isBotTyping' = FALSE
  /\ calls' = RemoveAt(calls, i)

\* await fetch(...) rejects: the network failed
fetchRejects(i) ==
  /\ ~alertOpen
  /\ calls[i].stage = "fetch"
  /\ CatchFinally(i)
  /\ UNCHANGED <<variant, conversationId, hasRecognition, isOpen, inputText,
                 isListening, timers, recState, alertOpen, invalidStart>>

\* await fetch(...) resolves with a status and a body; response.json() starts
fetchResolves(i, ok, body) ==
  /\ ~alertOpen
  /\ calls[i].stage = "fetch"
  /\ calls' = [calls EXCEPT ![i].stage = "json", ![i].ok = ok, ![i].body = body]
  /\ UNCHANGED <<variant, conversationId, hasRecognition, isOpen, messages,
                 inputText, isListening, isBotTyping, timers, recState,
                 alertOpen, invalidStart>>

\* mutant: the status of the response is not looked at
ThrowsIgnoringStatus(ok, body) ==
  \/ body.kind = "invalid"
  \/ body.kind = "null"

\* await response.json() rejects (the body is not JSON), or it resolves and the
\* rest of the try block throws: !response.ok throws an Error, and reading a
\* field of null throws a TypeError
Throws(ok, body) ==
  \/ body.kind = "invalid"
  \/ body.kind = "null"
  \/ ~ok

\* await response.json() settles; the rest of sendMessage runs to its end
jsonSettles(i) ==
  /\ ~alertOpen
  /\ calls[i].stage = "json"
  /\ IF Throws(calls[i].ok, calls[i].body)
       THEN CatchFinally(i)
       ELSE /\ messages' = AppendMessage(messages, BotMessage(calls[i].body.response))
            /\ isBotTyping' = FALSE
            /\ calls' = RemoveAt(calls, i)
  /\ UNCHANGED <<variant, conversationId, hasRecognition, isOpen, inputText,
                 isListening, timers, recState, alertOpen, invalidStart>>

----------------------------------------------------------------------------
(* Submit, local copy *)

\* the keyword rules of handleBotResponse
botResponseFor(userText) ==
  LET text == ToLowerCase(userText)
  IN  IF Includes(text, Kw_appointment) \/ Includes(text, Kw_book)
         \/ Includes(text, Kw_schedule)
        THEN BookingResponse
      ELSE IF Includes(text, Kw_doctor) \/ Includes(text, Kw_specialist)
        THEN SpecialistsResponse
      ELSE IF Includes(text, Kw_timing) \/ Includes(text, Kw_hours)
         \/ Includes(text, Kw_available)
        THEN AvailabilityResponse
      ELSE IF Includes(text, Kw_hello) \/ Includes(text, Kw_hi)
         \/ Includes(text, Kw_hey)
        THEN GreetingResponse
      ELSE IF Includes(text, Kw_thank)
        THEN ThanksResponse
      ELSE DefaultResponse

\* mutant: the user message is not appended before the timer is set
sendMessageLocalNoAppend ==
  IF Trim(inputText) = <<>>
    THEN UNCHANGED vars
    ELSE /\ inputText' = <<>>
         /\ timers' = Append(timers, [userText |-> inputText,
                                      userPos |-> Len(messages) + 1])
         /\ UNCHANGED <<variant, conversationId, hasRecognition, isOpen,
                        messages, isListening, isBotTyping, calls, recState,
                        alertOpen, invalidStart>>

\* sendMessage: the guard, the two state updates and setTimeout(..., 600)
sendMessageLocal ==
  IF Trim(inputText) = <<>>
    THEN UNCHANGED vars
    ELSE /\ messages' = AppendMessage(messages, UserMessage(inputText))
         /\ inputText' = <<>>
         /\ timers' = Append(timers, [userText |-> inputText,
                                      userPos |-> Len(messages) + 1])
         /\ UNCHANGED <<variant, conversationId, hasRecognition, isOpen,
                        isListening, isBotTyping, calls, recState, alertOpen,
                        invalidStart>>

\* mutant: the timer callback reads the draft as it is when the timer fires
handleBotResponseCurrentDraft ==
  /\ ~alertOpen
  /\ variant = "local"
  /\ timers # <<>>
  /\ messages' = AppendMessage(messages, BotMessage(botResponseFor(inputText)))
  /\ timers' = Tail(timers)
  /\ UNCHANGED <<variant, conversationId, hasRecognition, isOpen, inputText,
                 isListening, isBotTyping, calls, recState, alertOpen,
                 invalidStart>>

\* mutant: the newest timer fires first
handleBotResponseNewestFirst ==
  /\ ~alertOpen
  /\ variant = "local"
  /\ timers # <<>>
  /\ messages' = AppendMessage(messages,
                               BotMessage(botResponseFor(timers[Len(timers)].userText)))
  /\ timers' = SubSeq(timers, 1, Len(timers) - 1)
  /\ UNCHANGED <<variant, conversationId, hasRecognition, isOpen, inputText,
                 isListening, isBotTyping, calls, recState, alertOpen,
                 invalidStart>>

\* the oldest timer fires (timers of equal delay fire in the order they were
\* set) and runs handleBotResponse(inputText) with the text it captured
handleBotResponse ==
  /\ ~alertOpen
  /\ variant = "local"
  /\ timers # <<>>
  /\ messages' = AppendMessage(messages,
                               BotMessage(botResponseFor(Head(timers).userText)))
  /\ timers' = Tail(timers)
  /\ UNCHANGED <<variant, conversationId, hasRecognition, isOpen, inputText,
                 isListening, isBotTyping, calls, recState, alertOpen,
                 invalidStart>>

\* the user clicks the send button or presses Enter in the input: the form's
\* submit event runs sendMessage unless the rendered controls block it
submitForm ==
  /\ ~alertOpen
  /\ isOpen
  /\ NumUser(messages) < MaxSubmits
  /\ IF variant = "remote"
       THEN IF SendDisabled THEN UNCHANGED vars ELSE sendMessageRemote
       ELSE sendMessageLocal

----------------------------------------------------------------------------
(* Speech input *)

\* recognition.current.start() on a recognizer in state r.  A recognizer that
\* has started and has fired neither error nor end throws InvalidStateError;
\* between its error event and its end event the platform may accept the
\* start or throw.
StartRecognizer(r) ==
  CASE r = "idle" -> {[recState |-> "capturing", threw |-> FALSE]}
    [] r = "errored" -> {[recState |-> "capturing", threw |-> FALSE],
                         [recState |-> r, threw |-> TRUE]}
    [] OTHER -> {[recState |-> r, threw |-> TRUE]}

\* mutant: startListening without the check of recognition.current
startListeningUnchecked ==
  /\ ~alertOpen
  /\ isOpen
  /\ ~VoiceDisabled
  /\ ~isListening
  /\ isListening' = TRUE
  /\ \E started \in StartRecognizer(recState) :
       /\ recState' = started.recState
       /\ invalidStart' = (invalidStart \/ started.threw)
  /\ UNCHANGED <<variant, conversationId, hasRecognition, isOpen, messages,
                 inputText, isBotTyping, calls, timers, alertOpen>>

\* the voice button while isListening is false
startListening ==
  /\ ~alertOpen
  /\ isOpen
  /\ ~VoiceDisabled
  /\ ~isListening
  /\ IF ~hasRecognition
       THEN /\ alertOpen' = TRUE
            /\ UNCHANGED <<isListening, recState, invalidStart>>
       ELSE /\ isListening' = TRUE
            /\ \E started \in StartRecognizer(recState) :
                 /\ recState' = started.recState
                 /\ invalidStart' = (invalidStart \/ started.threw)
            /\ UNCHANGED alertOpen
  /\ UNCHANGED <<variant, conversationId, hasRecognition, isOpen, messages,
                 inputText, isBotTyping, calls, timers>>

\* recognition.current.stop() on a recognizer in state r: a capturing
\* recognizer stops listening and ends later; otherwise nothing happens
StopRecognizer(r) ==
  IF r = "capturing" THEN "stopping" ELSE r

\* mutant: the handler flips the flag instead of clearing it
StopHandlerToggle(listening, r) ==
  IF ~hasRecognition
    THEN [isListening |-> listening, recState |-> r]
    ELSE [isListening |-> ~listening, recState |-> StopRecognizer(r)]

\* the body of stopListening, from the flag and the recognizer state it finds
\* to those it leaves
StopHandler(listening, r) ==
  IF ~hasRecognition
    THEN [isListening |-> listening, recState |-> r]
    ELSE [isListening |-> FALSE, recState |-> StopRecognizer(r)]

\* the voice button while isListening is true
stopListening ==
  /\ ~alertOpen
  /\ isOpen
  /\ ~VoiceDisabled
  /\ isListening
  /\ isListening' = StopHandler(isListening, recState).isListening
  /\ recState' = StopHandler(isListening, recState).recState
  /\ UNCHANGED <<variant, conversationId, hasRecognition, isOpen, messages,
                 inputText, isBotTyping, calls, timers, alertOpen, invalidStart>>

\* recognition.onresult: one result per capture (continuous = false)
onresult(transcript) ==
  /\ ~alertOpen
  /\ recState \in {"capturing", "stopping"}
  /\ inputText' = transcript
  /\ recState' = "finishing"
  /\ UNCHANGED <<variant, conversationId, hasRecognition, isOpen, messages,
                 isListening, isBotTyping, calls, timers, alertOpen, invalidStart>>

\* recognition.onerror
onerror ==
  /\ ~alertOpen
  /\ recState \in {"capturing", "stopping"}
  /\ isListening' = FALSE
  /\ recState' = "errored"
  /\ UNCHANGED <<variant, conversationId, hasRecognition, isOpen, messages,
                 inputText, isBotTyping, calls, timers, alertOpen, invalidStart>>

\* mutant: onend does not clear the flag
onendKeepListening ==
  /\ ~alertOpen
  /\ recState \in {"stopping", "finishing", "errored"}
  /\ recState' = "idle"
  /\ UNCHANGED <<variant, conversationId, hasRecognition, isOpen, messages,
                 inputText, isListening, isBotTyping, calls, timers, alertOpen,
                 invalidStart>>

\* recognition.onend
onend ==
  /\ ~alertOpen
  /\ recState \in {"stopping", "finishing", "errored"}
  /\ isListening' = FALSE
  /\ recState' = "idle"
  /\ UNCHANGED <<variant, conversationId, hasRecognition, isOpen, messages,
                 inputText, isBotTyping, calls, timers, alertOpen, invalidStart>>

\* the user dismisses the alert of startListening
dismissAlert ==
  /\ alertOpen
  /\ alertOpen' = FALSE
  /\ UNCHANGED <<variant, conversationId, hasRecognition, isOpen, messages,
                 inputText, isListening, isBotTyping, calls, timers, recState,
                 invalidStart>>

----------------------------------------------------------------------------
(* Specification *)

FetchSettles ==
  \E i \in 1..Len(calls) :
    \/ fetchRejects(i)
    \/ \E ok \in BOOLEAN, body \in Bodies : fetchResolves(i, ok, body)

JsonSettles ==
  \E i \in 1..Len(calls) : jsonSettles(i)

Next ==
  \/ toggleChatbot
  \/ \E value \in Drafts : onChange(value)
  \/ submitForm
  \/ FetchSettles
  \/ JsonSettles
  \/ handleBotResponse
  \/ startListening
  \/ stopListening
  \/ \E transcript \in SpeechTexts : onresult(transcript)
  \/ onerror
  \/ onend
  \/ dismissAlert

Spec ==
  Init /\ [][Next]_vars

\* the network and the JSON parser settle every call they are given, and the
\* recognizer fires end after a result, an error or a stop
FairSpec ==
  Spec /\ WF_vars(FetchSettles) /\ WF_vars(JsonSettles) /\ WF_vars(onend)

----------------------------------------------------------------------------
(* Properties *)

Last(q) ==
  q[Len(q)]

\* a text made of white space only (the empty text included)
BlankText(s) ==
  \A i \in 1..Len(s) : s[i] \in WhiteSpace

\* the step appends exactly the message m
Appends(m) ==
  messages' = messages \o <<m>>

\* the resolver call of a submit that is outstanding points at the user message
\* of that submit
OutstandingFollowUserMessage ==
  /\ \A i \in 1..Len(calls) :
       /\ calls[i].userPos <= Len(messages)
       /\ messages[calls[i].userPos] = [text |-> calls[i].question, sender |-> "user"]
  /\ \A i \in 1..Len(timers) :
       /\ timers[i].userPos <= Len(messages)
       /\ messages[timers[i].userPos] = [text |-> timers[i].userText, sender |-> "user"]

\* a step that issues a resolver call appends the user message in that step
IssueAppendsUserMessage ==
  (Len(calls') > Len(calls) \/ Len(timers') > Len(timers))
    => /\ Appends([text |-> inputText, sender |-> "user"])
       /\ \/ /\ Len(calls') = Len(calls) + 1
             /\ SubSeq(calls', 1, Len(calls)) = calls
             /\ Last(calls').question = inputText
             /\ Last(calls').stage = "fetch"
             /\ timers' = timers
          \/ /\ Len(timers') = Len(timers) + 1
             /\ SubSeq(timers', 1, Len(timers)) = timers
             /\ Last(timers').userText = inputText
             /\ calls' = calls

\* a step that appends a bot message ends a resolver call, and the user message
\* of that call is at an earlier position than the bot message
BotReplyFollowsUserMessage ==
  (Len(messages') = Len(messages) + 1 /\ Last(messages').sender = "bot")
    => \/ \E i \in 1..Len(calls) :
            /\ calls' = RemoveAt(calls, i)
            /\ calls[i].userPos < Len(messages')
            /\ messages'[calls[i].userPos]
                 = [text |-> calls[i].question, sender |-> "user"]
       \/ /\ timers # <<>>
          /\ timers' = Tail(timers)
          /\ Head(timers).userPos < Len(messages')
          /\ messages'[Head(timers).userPos]
               = [text |-> Head(timers).userText, sender |-> "user"]

\* C1: in both copies the user message of a submit is appended in the submit
\* step, with the resolver call (fetch or timer) issued in that same step after
\* it, and the bot message of that submit lands at a strictly later position.
C1_UserMessagePrecedesBotReply ==
  /\ []OutstandingFollowUserMessage
  /\ [][IssueAppendsUserMessage]_vars
  /\ [][BotReplyFollowsUserMessage]_vars

\* C1 witness: the local copy after two submits made within one delay and both
\* replies: greeting, user, user, bot, bot
C1_Witness ==
  /\ variant = "local"
  /\ Len(messages) = 5
  /\ messages[2].sender = "user" /\ messages[3].sender = "user"
  /\ messages[4].sender = "bot" /\ messages[5].sender = "bot"
  /\ timers = <<>>

\* C2: remote copy: at most one sendMessage is suspended at an await, and one
\* is exactly when isBotTyping is true; while isBotTyping is true no step
\* appends a user message or issues a second call.
C2_AtMostOneCallInFlight ==
  /\ [](variant = "remote" =>
          /\ Len(calls) <= 1
          /\ (Len(calls) = 1) <=> isBotTyping)
  /\ [][(variant = "remote" /\ isBotTyping) =>
          /\ NumUser(messages') = NumUser(messages)
          /\ Len(calls') <= Len(calls)]_vars

\* C2 witness: the remote copy is open with a call outstanding and a non-blank
\* draft (a speech result that arrived after the submit): a submit is tried
C2_Witness ==
  /\ variant = "remote"
  /\ isOpen
  /\ isBotTyping
  /\ Len(calls) = 1
  /\ ~BlankText(inputText)
  /\ NumUser(messages) < MaxSubmits

\* C3: in both copies, from a state whose draft is empty or white space only,
\* no step appends a user message, issues a resolver call or sets isBotTyping,
\* and the draft changes only in steps that leave the transcript alone (typing
\* and speech results).
C3_BlankSubmitIsNoOp ==
  [][BlankText(inputText) =>
       /\ NumUser(messages') = NumUser(messages)
       /\ Len(calls') <= Len(calls)
       /\ Len(timers') <= Len(timers)
       /\ isBotTyping' => isBotTyping
       /\ (inputText' # inputText) => (messages' = messages)]_vars

\* C3 witness: the local copy is open, with a white-space draft and a submit
\* still allowed
C3_Witness ==
  /\ variant = "local"
  /\ isOpen
  /\ ~alertOpen
  /\ inputText = <<" ", "\f", "U+00A0">>
  /\ NumUser(messages) = 1

\* the call ended in a network failure, a non-2xx status or an unparseable body
CallFailed(c) ==
  \/ c.stage = "fetch"
  \/ c.stage = "json" /\ (~c.ok \/ c.body.kind = "invalid")

\* C4: remote copy: the step that ends a call by a network failure, a non-2xx
\* status or a body that is not JSON appends exactly one message, the bot
\* message with the fixed fallback text, and leaves isBotTyping false.
C4_FailureYieldsFallback ==
  [][\A i \in 1..Len(calls) :
       (calls' = RemoveAt(calls, i) /\ CallFailed(calls[i]))
         => /\ Appends([text |-> FallbackText, sender |-> "bot"])
            /\ isBotTyping' = FALSE]_vars

\* C4 witness: the one call of the remote copy has failed and ended, and the
\* transcript ends with the fallback
C4_Witness ==
  /\ variant = "remote"
  /\ calls = <<>>
  /\ ~isBotTyping
  /\ Len(messages) = 3
  /\ messages[3] = [text |-> FallbackText, sender |-> "bot"]

\* C5 (as claimed): a success reply whose JSON object has no response field
\* gives the fallback message: no message of the transcript has a missing text.
C5_MissingResponseIsFailure ==
  \A i \in 1..Len(messages) : messages[i].text # Undefined

----------------------------------------------------------------------------
(* The keyword rules, stated as the ordered rule list *)

\* texts the keyword rules are checked on, beside the drafts and utterances;
\* the last four hold code points outside ASCII (KELVIN SIGN, capital dotted
\* I, combining dot)
ResolverInputs ==
  { <<"C","a","n"," ","I"," ","b","o","o","k"," ","a","n"," ","a","p","p","o",
      "i","n","t","m","e","n","t","?">>,
    <<"B","O","O","K">>,
    <<"A","P","P","O","I","N","T","M","E","N","T"," ","p","l","e","a","s","e">>,
    <<"I"," ","n","e","e","d"," ","a"," ","d","o","c","t","o","r">>,
    <<"T","o","p"," ","S","P","E","C","I","A","L","I","S","T"," ","s","c","h",
      "e","d","u","l","e">>,
    <<"d","o","c","t","o","r"," ","h","o","u","r","s">>,
    <<"W","h","a","t"," ","a","r","e"," ","y","o","u","r"," ","t","i","m","i",
      "n","g","s">>,
    <<"t","h","i","s">>,
    <<"H","e","y"," ","t","h","e","r","e">>,
    <<"T","H","A","N","K"," ","y","o","u">>,
    <<"t","h","a","n","k","s"," ","d","o","c","t","o","r">>,
    <<"A","v","a","i","l","a","b","l","e","?">>,
    <<>>,
    <<" "," "," ">>,
    <<"x","y","z">>,
    <<"H","e","l","l","o",","," ","w","h","i","c","h"," ","h","o","u","r","s",
      "?">>,
    <<"D","o","c","t","o","r">>,
    <<"b","o","o","U+212A">>,
    <<"H","U+0130">>,
    <<"t","U+0130","m","i","n","g">>,
    <<"U+212A","U+0130","U+0307","U+0060"," ","s","c","h","e","d","u","l","E">> }

\* a is the character b (a lower-case letter or a non-letter) in either case
SameLetter(a, b) ==
  \/ a = b
  \/ <<a, b>> \in LowerPairs

\* kw occurs in t, letter case ignored; the capital dotted I (U+0130), whose
\* lower-case form is "i" and a combining dot, stands for an "i" only where
\* the keyword ends
ContainsIgnoringCase(t, kw) ==
  \E i \in 0..(Len(t) - Len(kw)) :
    \A j \in 1..Len(kw) :
      \/ SameLetter(t[i + j], kw[j])
      \/ t[i + j] = "U+0130" /\ kw[j] = "i" /\ j = Len(kw)

Rules ==
  << [keywords |-> {Kw_appointment, Kw_book, Kw_schedule},
      response |-> BookingResponse],
     [keywords |-> {Kw_doctor, Kw_specialist},
      response |-> SpecialistsResponse],
     [keywords |-> {Kw_timing, Kw_hours, Kw_available},
      response |-> AvailabilityResponse],
     [keywords |-> {Kw_hello, Kw_hi, Kw_hey},
      response |-> GreetingResponse],
     [keywords |-> {Kw_thank},
      response |-> ThanksResponse] >>

RuleMatches(n, t) ==
  \E kw \in Rules[n].keywords : ContainsIgnoringCase(t, kw)

\* the response of the first rule that matches, or the default
RuleReply(t) ==
  LET hits == {n \in 1..Len(Rules) : RuleMatches(n, t)}
  IN  IF hits = {}
        THEN DefaultResponse
        ELSE Rules[CHOOSE n \in hits : \A m \in hits : n <= m].response

HasBookingKeyword(t) ==
  RuleMatches(1, t)

\* the reply r to the text t is the first matching rule's, and a booking
\* keyword gives the booking reply
ReplyByFirstRule(t, r) ==
  /\ r = RuleReply(t)
  /\ (ContainsIgnoringCase(t, Kw_book) \/ ContainsIgnoringCase(t, Kw_appointment))
       => r = BookingResponse

\* the step in which the oldest timer of the local copy fires
TimerFires ==
  /\ variant = "local"
  /\ timers # <<>>
  /\ timers' = Tail(timers)

\* C6 (as claimed): the reply appended by handleBotResponse is the first
\* matching rule's; a text containing "book" or "appointment" in any case gets
\* the booking reply and a text containing "doctor" gets the specialists reply.
C6_DoctorAlwaysSpecialists ==
  [][TimerFires =>
       /\ ReplyByFirstRule(Head(timers).userText, Last(messages').text)
       /\ ContainsIgnoringCase(Head(timers).userText, Kw_doctor)
            => Last(messages').text = SpecialistsResponse]_vars

\* the replies to the texts of ResolverInputs, the drafts and the utterances
\* (a fact about botResponseFor alone, the same in every state)
RepliesOnInputs ==
  \A t \in ResolverInputs \cup Drafts \cup SpeechTexts :
    /\ ReplyByFirstRule(t, botResponseFor(t))
    /\ (ContainsIgnoringCase(t, Kw_doctor) /\ ~HasBookingKeyword(t))
         => botResponseFor(t) = SpecialistsResponse

\* C6 (amended): the reply of handleBotResponse, for the texts of
\* ResolverInputs, the drafts and the utterances, and the reply appended when a
\* timer fires, is the response of the first matching rule in the fixed order
\* and the default when none matches; a text containing "book" or
\* "appointment" in any case gets the booking reply; a text containing "doctor"
\* and no booking keyword gets the specialists reply.
C6_FirstMatchingRule ==
  /\ []RepliesOnInputs
  /\ [][TimerFires =>
          /\ Appends([text |-> Last(messages').text, sender |-> "bot"])
          /\ ReplyByFirstRule(Head(timers).userText, Last(messages').text)
          /\ (ContainsIgnoringCase(Head(timers).userText, Kw_doctor)
              /\ ~HasBookingKeyword(Head(timers).userText))
               => Last(messages').text = SpecialistsResponse]_vars

\* C6 witness: the local copy has answered "Book a doctor" with the booking
\* reply
C6_Witness ==
  /\ variant = "local"
  /\ Len(messages) >= 3
  /\ messages[2] = [text |-> <<"B","o","o","k"," ","a"," ","d","o","c","t","o","r">>,
                    sender |-> "user"]
  /\ messages[3] = [text |-> BookingResponse, sender |-> "bot"]

\* C7: in both copies every step leaves the transcript as it is or appends one
\* message to it: the earlier transcript is a prefix of the later one.
C7_TranscriptAppendOnly ==
  [][/\ Len(messages') \in {Len(messages), Len(messages) + 1}
     /\ SubSeq(messages', 1, Len(messages)) = messages]_vars

\* C7 witness: the remote copy, closed again, after two submits and their two
\* replies, with a speech capture under way
C7_Witness ==
  /\ variant = "remote"
  /\ Len(messages) = 5
  /\ ~isOpen
  /\ recState # "idle"

\* C8: a step that changes isOpen changes nothing else of the widget
\* (transcript, draft, isBotTyping, isListening, conversationId, outstanding
\* calls and timers, recognizer), and a resolver call that ends while the
\* widget is closed still appends its message.
C8_ToggleOnlyVisibility ==
  /\ [][(isOpen' # isOpen) =>
          UNCHANGED <<messages, inputText, isBotTyping, isListening,
                      conversationId, calls, timers, recState, hasRecognition,
                      invalidStart>>]_vars
  /\ [][(~isOpen /\ (Len(calls') < Len(calls) \/ Len(timers') < Len(timers)))
          => /\ Len(messages') = Len(messages) + 1
             /\ Last(messages').sender = "bot"]_vars

\* C8 witness: the remote copy was closed while a call was outstanding and
\* speech capture was active, with the transcript of the submit in place
C8_Witness ==
  /\ variant = "remote"
  /\ ~isOpen
  /\ isBotTyping
  /\ Len(calls) = 1
  /\ isListening
  /\ recState = "capturing"
  /\ Len(messages) = 2

\* C9: remote copy, the network and the JSON parser settling every call: the
\* call of the user message at position p (the k-th submit, p = 2k) is
\* followed by a bot message at position p + 1 and isBotTyping false; the bot messages after the greeting
\* and the outstanding calls together are as many as the user messages; the
\* step that ends a call appends one bot message (the fallback when the call
\* failed or the body is null, else the response field of the reply) and
\* clears isBotTyping; and with isBotTyping false a non-blank draft can be
\* submitted.
C9_EverySubmitAnsweredOnce ==
  /\ \A k \in 1..MaxSubmits :
       (variant = "remote" /\ \E i \in 1..Len(calls) : calls[i].userPos = 2 * k)
         ~> (/\ Len(messages) > 2 * k
             /\ messages[2 * k + 1].sender = "bot"
             /\ ~isBotTyping
             /\ calls = <<>>)
  /\ [](variant = "remote" =>
          /\ NumBot(messages) + Len(calls) = NumUser(messages) + 1
          /\ \A i \in 1..Len(calls) :
               \E k \in 1..MaxSubmits : calls[i].userPos = 2 * k)
  /\ [][(variant = "remote" /\ Len(calls') < Len(calls)) =>
          /\ IF CallFailed(calls[1]) \/ calls[1].body.kind = "null"
               THEN Appends([text |-> FallbackText, sender |-> "bot"])
               ELSE Appends([text |-> calls[1].body.response, sender |-> "bot"])
          /\ calls' = <<>>
          /\ ~isBotTyping']_vars
  /\ []((/\ variant = "remote"
         /\ ~isBotTyping
         /\ isOpen
         /\ ~alertOpen
         /\ ~BlankText(inputText)
         /\ NumUser(messages) < MaxSubmits)
          => ENABLED (submitForm /\ Len(calls') = 1))

\* C9 witness: a submit whose call failed, then a second submit that was
\* accepted and answered
C9_Witness ==
  /\ variant = "remote"
  /\ Len(messages) = 5
  /\ messages[3] = [text |-> FallbackText, sender |-> "bot"]
  /\ messages[4].sender = "user"
  /\ messages[5] = [text |-> ServerReply, sender |-> "bot"]
  /\ ~isBotTyping
  /\ calls = <<>>

\* C10 (as claimed): local copy: at most one reply timer is pending.
C10_AtMostOneTimerPending ==
  variant = "local" => Len(timers) <= 1

----------------------------------------------------------------------------
(* Speech input properties *)

\* the recognizer has started and has fired neither error nor end
RecognizerCapturing ==
  recState \in {"capturing", "stopping", "finishing"}

\* C11 (as claimed): a step that sets isListening, which is the step in which
\* startListening calls recognition.start(), is taken only when the recognizer
\* is not capturing.
C11_StartOnlyWhenNotCapturing ==
  [][(isListening' /\ ~isListening) => ~RecognizerCapturing]_vars

\* the step in which onresult delivers the utterance
ResultStep ==
  recState \in {"capturing", "stopping"} /\ recState' = "finishing"

\* the step in which onerror reports a platform error
ErrorStep ==
  recState \in {"capturing", "stopping"} /\ recState' = "errored"

\* the step changes neither the transcript nor the outstanding resolver calls
NothingSubmitted ==
  UNCHANGED <<messages, calls, timers, isBotTyping>>

\* C12: the result of a capture sets the draft to the transcribed text and
\* submits nothing; after it the recognizer delivers no second result and can
\* only end, the step in which it ends leaves isListening false, and (the
\* recognizer firing end) that step comes; an error sets isListening false,
\* leaves the draft as it is and submits nothing.
C12_SpeechLifecycle ==
  /\ (recState = "finishing") ~> (recState = "idle" /\ ~isListening)
  /\ [][ResultStep =>
          /\ inputText' \in SpeechTexts
          /\ NothingSubmitted]_vars
  /\ [][(recState = "finishing") =>
          /\ recState' \in {"finishing", "idle"}
          /\ (recState' = "idle") => ~isListening']_vars
  /\ [][ErrorStep =>
          /\ ~isListening'
          /\ inputText' = inputText
          /\ NothingSubmitted]_vars

\* C12 witness: a capture has delivered its utterance into the draft and has
\* ended; nothing was submitted
C12_Witness ==
  /\ hasRecognition
  /\ recState = "idle"
  /\ ~isListening
  /\ inputText \in SpeechTexts
  /\ Len(messages) = 1
  /\ calls = <<>>
  /\ timers = <<>>

\* C13: without the platform capability isListening stays false, the
\* recognizer is never started, the voice button raises the alert, and the
\* step that raises it changes nothing else.
C13_UnsupportedSpeech ==
  /\ [](~hasRecognition =>
          /\ ~isListening
          /\ recState = "idle"
          /\ ~invalidStart
          /\ (isOpen /\ ~VoiceDisabled /\ ~alertOpen)
               => ENABLED (startListening /\ alertOpen'))
  /\ [][(~hasRecognition /\ alertOpen' # alertOpen) =>
          UNCHANGED <<isOpen, messages, inputText, isListening, isBotTyping,
                      calls, timers, recState, invalidStart>>]_vars

\* C13 witness: the platform has no speech input and the alert is on screen
C13_Witness ==
  /\ ~hasRecognition
  /\ alertOpen
  /\ ~isListening

\* C14: in every reachable state, running the body of stopListening twice
\* leaves the flag and the recognizer as running it once; with the capability
\* it leaves the flag false, and a recognizer that is not capturing as it is;
\* a step that clears the flag leaves the draft and the transcript alone.
C14_StopIdempotent ==
  /\ [](LET once == StopHandler(isListening, recState)
            twice == StopHandler(once.isListening, once.recState)
        IN  /\ twice = once
            /\ hasRecognition => ~once.isListening
            /\ (recState # "capturing") => once.recState = recState)
  /\ [][(isListening /\ ~isListening') =>
          UNCHANGED <<messages, inputText>>]_vars

\* C14 witness: stopListening has run a second time, on a recognizer that was
\* already stopping (start, stop, a start that threw, stop)
C14_Witness ==
  /\ recState = "stopping"
  /\ invalidStart
  /\ ~isListening

----------------------------------------------------------------------------
(* Session identifier, submit effect, reply order *)

\* C15: remote copy: no step changes conversationId, it is one of the values
\* the mount can give it, and every request that is outstanding carries it.
C15_SessionIdFixed ==
  /\ [][conversationId' = conversationId]_vars
  /\ [](variant = "remote" =>
          /\ conversationId \in SessionIds
          /\ \A i \in 1..Len(calls) : calls[i].conversation_id = conversationId)

\* C15 witness: the request of the second submit is outstanding, after the
\* widget was toggled, a first reply arrived and a speech capture was started
C15_Witness ==
  /\ variant = "remote"
  /\ Len(messages) = 4
  /\ Len(calls) = 1
  /\ calls[1].stage = "json"
  /\ calls[1].conversation_id = conversationId
  /\ recState # "idle"

\* C16 (as claimed): the step that ends a call whose reply has a non-2xx status
\* or a body with a message field appends the fallback, and no message of the
\* transcript has the server's error text.
C16_MessageFieldIsError ==
  /\ [][\A i \in 1..Len(calls) :
          (/\ calls' = RemoveAt(calls, i)
           /\ calls[i].stage = "json"
           /\ (~calls[i].ok \/ calls[i].body.message # Undefined))
            => Appends([text |-> FallbackText, sender |-> "bot"])]_vars
  /\ [](\A i \in 1..Len(messages) : messages[i].text # ServerError)

\* C16 (amended): the step that ends a call whose reply has a non-2xx status,
\* with or without a message field in its body, appends the fallback, and no
\* message of the transcript has the server's error text.
C16_NonSuccessIsError ==
  /\ [][\A i \in 1..Len(calls) :
          (/\ calls' = RemoveAt(calls, i)
           /\ calls[i].stage = "json"
           /\ ~calls[i].ok)
            => Appends([text |-> FallbackText, sender |-> "bot"])]_vars
  /\ [](\A i \in 1..Len(messages) : messages[i].text # ServerError)

\* C16 witness: after a first submit that was answered with the server's
\* reply, the call of the second submit has failed and ended with the fallback
C16_Witness ==
  /\ variant = "remote"
  /\ Len(messages) = 5
  /\ messages[3] = [text |-> ServerReply, sender |-> "bot"]
  /\ messages[5] = [text |-> FallbackText, sender |-> "bot"]
  /\ calls = <<>>

\* the step in which a submit is accepted
SubmitStep ==
  /\ Len(messages') = Len(messages) + 1
  /\ Last(messages').sender = "user"

\* C17: an accepted submit with draft d appends {text: d, sender: user},
\* empties the draft, leaves isOpen and isListening alone, and hands d to the
\* resolver: the remote request has question d and sets isBotTyping, the local
\* timer holds d; the question of an outstanding request does not change, and
\* the local reply is computed from the text the timer holds.
C17_SubmitEffect ==
  /\ [][SubmitStep =>
          /\ ~BlankText(inputText)
          /\ Appends([text |-> inputText, sender |-> "user"])
          /\ inputText' = <<>>
          /\ isOpen' = isOpen
          /\ isListening' = isListening
          /\ IF variant = "remote"
               THEN /\ isBotTyping'
                    /\ Len(calls') = Len(calls) + 1
                    /\ Last(calls').question = inputText
                    /\ timers' = timers
               ELSE /\ isBotTyping' = isBotTyping
                    /\ Len(timers') = Len(timers) + 1
                    /\ Last(timers').userText = inputText
                    /\ calls' = calls]_vars
  /\ [][(Len(calls') = Len(calls)) =>
          \A i \in 1..Len(calls) : calls'[i].question = calls[i].question]_vars
  /\ [][TimerFires =>
          Appends([text |-> botResponseFor(Head(timers).userText),
                   sender |-> "bot"])]_vars

\* C17 witness: the local copy holds a timer for a submitted text while the
\* draft has been changed to another non-blank text
C17_Witness ==
  /\ variant = "local"
  /\ Len(timers) = 1
  /\ ~BlankText(inputText)
  /\ inputText # timers[1].userText
  /\ messages[Len(messages)] = [text |-> timers[1].userText, sender |-> "user"]

IsUser(m) ==
  m.sender = "user"

IsBot(m) ==
  m.sender = "bot"

\* the user messages of the transcript, and its bot messages after the greeting
UserMessages ==
  SelectSeq(messages, IsUser)

BotReplies ==
  Tail(SelectSeq(messages, IsBot))

\* C18: local copy: the bot messages after the greeting are no more than the
\* user messages, and the k-th of them is the rules' reply to the k-th user
\* message.
C18_RepliesInSubmissionOrder ==
  variant = "local" =>
    /\ Len(BotReplies) <= Len(UserMessages)
    /\ Len(BotReplies) + Len(timers) = Len(UserMessages)
    /\ \A k \in 1..Len(BotReplies) :
         BotReplies[k].text = RuleReply(UserMessages[k].text)

\* C18 witness: two different texts were submitted within one delay and both
\* replies, which differ, have been appended
C18_Witness ==
  /\ variant = "local"
  /\ Len(messages) = 5
  /\ IsUser(messages[2]) /\ IsUser(messages[3])
  /\ IsBot(messages[4]) /\ IsBot(messages[5])
  /\ messages[4].text # messages[5].text

\* C19 (as claimed): remote copy: while isBotTyping is true the draft is empty.
C19_DraftEmptyWhileTyping ==
  (variant = "remote" /\ isBotTyping) => inputText = <<>>

====
